---------------------------- MODULE Spec2Model ----------------------------
(***************************************************************************)
(* Model of src/cep.py: the torsion analysis / design engine for           *)
(* rectangular, T and L beam sections, and the Streamlit script that       *)
(* drives it (session_state["last_inputs"], session_state["last_calc"]).   *)
(*                                                                         *)
(* Numbers.  The code computes in IEEE doubles; the model computes in      *)
(* exact rational arithmetic.  A rational is a pair <<n, d>> with d > 0    *)
(* and gcd(n, d) = 1.  TLC stops with an overflow error when an integer    *)
(* leaves the 32-bit range, so a finished run used exact arithmetic only.  *)
(* math.sqrt is exact on the perfect squares the inputs are drawn from.    *)
(* Python's None is the empty tuple <<>>.                                  *)
(***************************************************************************)
EXTENDS Integers, Sequences, FiniteSets, TLC

VARIABLES
    BAR_DIAMETERS,  \* the module-level bar table (designation -> mils)
    args,           \* the inputs of the current invocation / the widgets
    entry,          \* the entry point last invoked and its section type
    outcome,        \* what that invocation produced (result or exception)
    mode,           \* sidebar radio: "Analysis" or "Design"
    want_section,   \* sidebar selectbox: section type
    last_inputs,    \* st.session_state["last_inputs"] (<<>> = absent)
    last_calc,      \* st.session_state["last_calc"]   (<<>> = absent)
    draw_checkbox,  \* "Draw Cross-Section after calculation" checkbox
    pinned,         \* ghost: one earlier engine invocation, kept to compare
    runs            \* ghost: number of Run Calculation events so far

vars == <<BAR_DIAMETERS, args, entry, outcome, mode, want_section,
          last_inputs, last_calc, draw_checkbox, pinned, runs>>

-----------------------------------------------------------------------------
(* Rational arithmetic                                                     *)

Abs(n) == IF n < 0 THEN -n ELSE n

RECURSIVE Gcd(_, _)
Gcd(a, b) == IF b = 0 THEN a ELSE Gcd(b, a % b)

\* The rational n/d in lowest terms (d # 0).
R(n, d) ==
    LET g == Gcd(Abs(n), Abs(d))
        s == IF d < 0 THEN -1 ELSE 1
    IN  <<s * (n \div g), s * (d \div g)>>

I(n) == <<n, 1>>
Zero == <<0, 1>>
None == <<>>

\* float('inf'), and a finite float so large (1e306) that a product with
\* 1000 leaves the range of a float and becomes inf
Inf == <<1, 0>>
Huge == <<2, 0>>

RNeg(x) == <<-x[1], x[2]>>

RAdd(x, y) ==
    LET g == Gcd(x[2], y[2])
    IN  R(x[1] * (y[2] \div g) + y[1] * (x[2] \div g), (x[2] \div g) * y[2])

RSub(x, y) == RAdd(x, RNeg(y))

RMul(x, y) ==
    LET g1 == Gcd(Abs(x[1]), y[2])
        g2 == Gcd(Abs(y[1]), x[2])
    IN  R((x[1] \div g1) * (y[1] \div g2), (x[2] \div g2) * (y[2] \div g1))

\* 1/y for y # 0
RInv(y) == IF y[1] > 0 THEN <<y[2], y[1]>> ELSE <<-y[2], -y[1]>>

\* x / y for y # 0 (the callers test the divisor first, as Python raises)
RDiv(x, y) == RMul(x, RInv(y))

\* x < y, decided without multiplying: compare the integer parts, then the
\* reciprocals of the fractional parts (continued-fraction comparison).
RECURSIVE RLt(_, _)
RLt(x, y) ==
    LET qx == x[1] \div x[2]
        qy == y[1] \div y[2]
        rx == x[1] % x[2]
        ry == y[1] % y[2]
    IN  IF qx # qy THEN qx < qy
        ELSE IF ry = 0 THEN FALSE
        ELSE IF rx = 0 THEN TRUE
        ELSE RLt(<<y[2], ry>>, <<x[2], rx>>)

RLe(x, y) == ~RLt(y, x)
RMax(x, y) == IF RLt(x, y) THEN y ELSE x     \* Python max: first of equals
RMin(x, y) == IF RLt(y, x) THEN y ELSE x     \* Python min: first of equals
RSq(x) == RMul(x, x)
RFloor(x) == x[1] \div x[2]                   \* math.floor
RCeil(x) == -((-x[1]) \div x[2])              \* math.ceil


-----------------------------------------------------------------------------
(* Bar table                                                               *)

\* BAR_DIAMETERS as the module defines it; diameters in thousandths of an inch
BarDiametersInit ==
    (3 :> 375) @@ (4 :> 500) @@ (5 :> 625) @@ (6 :> 750) @@ (7 :> 875) @@
    (8 :> 1000) @@ (9 :> 1128) @@ (10 :> 1270) @@ (11 :> 1410) @@
    (14 :> 1693) @@ (18 :> 2257)

\* BAR_DIAMETERS.get(bar_number, 0)
BarGet(bar_number) ==
    IF bar_number \in DOMAIN BAR_DIAMETERS THEN BAR_DIAMETERS[bar_number] ELSE 0

\* round((math.pi / 4) * d ** 2, 6) in millionths of a square inch, tabulated
\* for the diameters of the table (pi is not a rational)
RoundedCircleArea(d) ==
    CASE d = 375  -> 110447
      [] d = 500  -> 196350
      [] d = 625  -> 306796
      [] d = 750  -> 441786
      [] d = 875  -> 601320
      [] d = 1000 -> 785398
      [] d = 1128 -> 999328
      [] d = 1270 -> 1266769
      [] d = 1410 -> 1561450
      [] d = 1693 -> 2251147
      [] d = 2257 -> 4000857

area_of_bar_explicit(bar_number) ==
    LET d == BarGet(bar_number)
    IN  IF d <= 0 THEN Zero ELSE R(RoundedCircleArea(d), 1000000)

area_of_bar(bar_number) ==
    LET d == BarGet(bar_number)
    IN  IF d > 0 THEN R(RoundedCircleArea(d), 1000000) ELSE Zero

-----------------------------------------------------------------------------
(* Outcomes of an invocation                                               *)

EmptyDict == [k \in {} |-> Zero]

\* A returned dict.  steps is a ghost: the stages of the function that ran.
Result(v, steps) ==
    [kind |-> "result", exc |-> "", msg |-> "", value |-> v, steps |-> steps]

\* An exception leaving the function.
Raise(exc, msg, steps) ==
    [kind |-> "raise", exc |-> exc, msg |-> msg, value |-> EmptyDict,
     steps |-> steps]

NoOutcome ==
    [kind |-> "none", exc |-> "", msg |-> "", value |-> EmptyDict, steps |-> <<>>]

MsgFloatNone == "float() argument must be a string or a real number, not 'NoneType'"
MsgOperandNone == "unsupported operand type(s) for -"
MsgDepth == "Effective depth d <= 0."
MsgDomain == "math domain error"
MsgDivZero == "division by zero"
MsgInfToInt == "cannot convert float infinity to integer"

\* Largest root tried by the integer square root
MaxRoot == 100

RECURSIVE SqrtIn(_, _, _)
\* the largest n in lo .. hi - 1 with (n / 10000) ** 2 <= x, by bisection;
\* n * n is never formed: n / 10000 is compared with x / (n / 10000)
SqrtIn(x, lo, hi) ==
    IF hi = lo + 1 THEN lo
    ELSE LET mid == (lo + hi) \div 2
         IN  IF RLe(R(mid, 10000), RDiv(x, R(mid, 10000)))
             THEN SqrtIn(x, mid, hi)
             ELSE SqrtIn(x, lo, mid)

\* math.sqrt(x) for 0 <= x <= MaxRoot ** 2: exact for the square of a whole
\* number, otherwise the root cut after four decimals (the float result
\* differs from it by less than 0.0001)
math_sqrt(x) ==
    IF \E r \in 0..MaxRoot : r * r = x[1] /\ x[2] = 1
    THEN I(CHOOSE r \in 0..MaxRoot : r * r = x[1] /\ x[2] = 1)
    ELSE R(SqrtIn(x, 0, (MaxRoot + 1) * 10000), 10000)

Has(s, step) == \E i \in 1..Len(s) : s[i] = step

-----------------------------------------------------------------------------
(* Section geometry helpers                                                *)

cover == R(3, 4)

\* max((x - 2 * cover - 0.25), 0)
CoreDimDesign(x) == RMax(RSub(RSub(x, RMul(I(2), cover)), R(1, 4)), Zero)

\* (x - 2 * cover), the max(..., 0) forgotten
CoreDimAnalysisUnclamped(x) == RSub(x, RMul(I(2), cover))

\* the analysis dimension with the 0.25 allowance of the design path taken off
CoreDimAnalysisWithAllowance(x) ==
    RMax(RSub(RSub(x, RMul(I(2), cover)), R(1, 4)), Zero)

\* max((x - 2 * cover), 0)
CoreDimAnalysis(x) == RMax(RSub(x, RMul(I(2), cover)), Zero)

\* The gross section with the overhang taken as 4 * tf, not limited by h - tf
FlangedGrossFullOverhang(b, h, tf, sides) ==
    LET bf  == RAdd(b, RMul(I(sides), RMul(I(4), tf)))
        Acp == RAdd(RMul(b, h), RMul(RSub(bf, b), tf))
        Pcp == RAdd(RAdd(RMul(I(2), h), RMul(I(2), b)), RMul(I(2), RSub(bf, b)))
    IN  <<bf, Acp, Pcp>>

\* The gross section: <<bf, Acp, Pcp>> for a flanged section
FlangedGross(b, h, tf, sides) ==
    LET bf  == RAdd(b, RMul(I(sides), RMin(RMul(I(4), tf), RSub(h, tf))))
        Acp == RAdd(RMul(b, h), RMul(RSub(bf, b), tf))
        Pcp == RAdd(RAdd(RMul(I(2), h), RMul(I(2), b)), RMul(I(2), RSub(bf, b)))
    IN  <<bf, Acp, Pcp>>

compute_section_geometry(entries_b, entries_h, section_type, entries_tf) ==
    LET b == entries_b
        h == entries_h
        flanged == section_type \in {"T Section", "L Section"}
    IN  IF flanged /\ entries_tf = None
        THEN Raise("TypeError", MsgFloatNone, <<"geometry">>)
        ELSE
        LET gross == IF section_type = "T Section" THEN FlangedGross(b, h, entries_tf, 2)
                     ELSE IF section_type = "L Section" THEN FlangedGross(b, h, entries_tf, 1)
                     ELSE <<b, RMul(h, b), RMul(I(2), RAdd(h, b))>>
            Aoh == RMul(CoreDimDesign(b), CoreDimDesign(h))
            Ph  == RAdd(RMul(I(2), CoreDimDesign(b)), RMul(I(2), CoreDimDesign(h)))
            Ao  == RMul(R(85, 100), Aoh)
        IN  Result([Acp |-> gross[2], Pcp |-> gross[3], Aoh |-> Aoh, Ph |-> Ph,
                    Ao |-> Ao, b |-> b, h |-> h, cover |-> cover, bf |-> gross[1],
                    tf |-> IF entries_tf # None THEN entries_tf ELSE Zero],
                   <<"geometry">>)

compute_section_geometry_dup(entries_b, entries_h, section_type, entries_tf) ==
    LET b == entries_b
        h == entries_h
        flanged == section_type \in {"T Section", "L Section"}
    IN  IF flanged /\ entries_tf = None
        THEN Raise("TypeError", MsgFloatNone, <<"geometry">>)
        ELSE
        LET gross == IF section_type = "T Section" THEN FlangedGross(b, h, entries_tf, 2)
                     ELSE IF section_type = "L Section" THEN FlangedGross(b, h, entries_tf, 1)
                     ELSE <<b, RMul(h, b), RMul(I(2), RAdd(h, b))>>
            Aoh == RMul(CoreDimDesign(b), CoreDimDesign(h))
            Ph  == RAdd(RMul(I(2), CoreDimDesign(b)), RMul(I(2), CoreDimDesign(h)))
            Ao  == RMul(R(85, 100), Aoh)
        IN  Result([Acp |-> gross[2], Pcp |-> gross[3], Aoh |-> Aoh, Ph |-> Ph,
                    Ao |-> Ao, b |-> b, h |-> h, cover |-> cover, bf |-> gross[1],
                    tf |-> IF entries_tf # None THEN entries_tf ELSE Zero],
                   <<"geometry">>)

-----------------------------------------------------------------------------
(* Quotients without forming the quotient                                  *)

RECURSIVE QuotBracket(_, _, _)
\* the first hi = 1, 2, 4, ... with x < hi * y   (x >= 0, y > 0)
QuotBracket(x, y, hi) ==
    IF RLt(x, RMul(I(hi), y)) THEN hi ELSE QuotBracket(x, y, 2 * hi)

RECURSIVE FloorQuotIn(_, _, _, _)
\* floor(x / y), given lo * y <= x < hi * y
FloorQuotIn(x, y, lo, hi) ==
    IF hi = lo + 1 THEN lo
    ELSE LET mid == (lo + hi) \div 2
         IN  IF RLe(RMul(I(mid), y), x) THEN FloorQuotIn(x, y, mid, hi)
             ELSE FloorQuotIn(x, y, lo, mid)

\* floor(x / y) for x >= 0, y > 0, found by bisection: no product of the
\* two numerators is formed
FloorQuotNat(x, y) == FloorQuotIn(x, y, 0, QuotBracket(x, y, 1))

\* math.floor(x / y) for y > 0
FloorQuot(x, y) ==
    IF x[1] >= 0 THEN FloorQuotNat(x, y)
    ELSE LET k == FloorQuotNat(RNeg(x), y)
         IN  IF RMul(I(k), y) = RNeg(x) THEN -k ELSE -(k + 1)

\* Natural numbers beyond the integer range: limbs in base 10^4, least first
Base == 100 * 100

RECURSIVE Carry(_, _)
Carry(s, c) ==
    IF s = <<>> THEN (IF c = 0 THEN <<>> ELSE <<c % Base>> \o Carry(<<>>, c \div Base))
    ELSE <<(Head(s) + c) % Base>> \o Carry(Tail(s), (Head(s) + c) \div Base)

BigNat(n) == Carry(<<>>, n)

Limb(x, i) == IF i >= 1 /\ i <= Len(x) THEN x[i] ELSE 0

RECURSIVE ConvSum(_, _, _, _)
\* sum of x[i] * y[k + 1 - i] for i = from .. Len(x)
ConvSum(x, y, k, from) ==
    IF from > Len(x) THEN 0
    ELSE x[from] * Limb(y, k + 1 - from) + ConvSum(x, y, k, from + 1)

BigMul(x, y) == Carry([k \in 1..(Len(x) + Len(y)) |-> ConvSum(x, y, k, 1)], 0)

BigAdd(x, y) ==
    Carry([k \in 1..(IF Len(x) > Len(y) THEN Len(x) ELSE Len(y)) |->
              Limb(x, k) + Limb(y, k)], 0)

RECURSIVE BigLeFrom(_, _, _)
\* x <= y, comparing limbs i, i - 1, ..., 1
BigLeFrom(x, y, i) ==
    IF i = 0 THEN TRUE
    ELSE IF Limb(x, i) # Limb(y, i) THEN Limb(x, i) < Limb(y, i)
    ELSE BigLeFrom(x, y, i - 1)

BigLe(x, y) == BigLeFrom(x, y, IF Len(x) > Len(y) THEN Len(x) ELSE Len(y))

BigSq(n) == BigMul(BigNat(n), BigNat(n))

\* v^2 + t^2 <= c^2 for rationals v, t, c >= 0, by cross-multiplication
SumSqLe(v, t, c) ==
    BigLe(BigAdd(BigMul(BigMul(BigSq(v[1]), BigSq(t[2])), BigSq(c[2])),
                 BigMul(BigMul(BigSq(t[1]), BigSq(v[2])), BigSq(c[2]))),
          BigMul(BigMul(BigSq(c[1]), BigSq(v[2])), BigSq(t[2])))

\* math.ceil(x / y) for y > 0
CeilQuot(x, y) == -FloorQuot(RNeg(x), y)

-----------------------------------------------------------------------------
(* Stirrup selection helpers                                               *)

bar_options == <<3, 4, 5, 6, 7, 8>>

\* max(4.0, min(12.0, Ph/8 if Ph>0 else 12.0))
EarlySpacing(Ph) ==
    RMax(I(4), RMin(I(12), IF RLt(Zero, Ph) THEN RDiv(Ph, I(8)) ELSE I(12)))

\* s = (2 * Av) / Ats satisfies  s <= limit and s >= 4   (Ats > 0)
SpacingFits(Av, Ats, limit) ==
    /\ RLe(RMul(I(2), Av), RMul(limit, Ats))
    /\ RLe(RMul(I(4), Ats), RMul(I(2), Av))

\* math.floor(s * 2) / 2 for s = (2 * Av) / Ats   (Ats > 0)
FlooredSpacing(Av, Ats) == R(FloorQuot(RMul(I(4), Av), Ats), 2)

\* math.floor(s * 2) / 2
FloorHalf(s) == R(RFloor(RMul(s, I(2))), 2)

RECURSIVE ScanBarsLargestFirst(_, _, _, _)
\* the scan run from the largest size down: the last accepted bar wins
ScanBarsLargestFirst(i, Ph, Ats, limit) ==
    IF i > Len(bar_options) THEN None
    ELSE IF ScanBarsLargestFirst(i + 1, Ph, Ats, limit) # None
         THEN ScanBarsLargestFirst(i + 1, Ph, Ats, limit)
         ELSE IF SpacingFits(area_of_bar(bar_options[i]), Ats, limit)
              THEN <<bar_options[i], FlooredSpacing(area_of_bar(bar_options[i]), Ats)>>
              ELSE None

RECURSIVE ScanBars(_, _, _, _)
\* the for loop of select_stirrup_and_spacing from position i on:
\* <<selected_bar, final_spacing>>, or None when no bar is accepted
ScanBars(i, Ph, Ats, limit) ==
    IF i > Len(bar_options) THEN None
    ELSE IF SpacingFits(area_of_bar(bar_options[i]), Ats, limit)
         THEN <<bar_options[i], FlooredSpacing(area_of_bar(bar_options[i]), Ats)>>
         ELSE ScanBars(i + 1, Ph, Ats, limit)

select_stirrup_and_spacing(Ph, Ats) ==
    IF RLe(Ats, Zero) \/ RLe(Ph, Zero)
    THEN <<3, EarlySpacing(Ph)>>
    ELSE LET limit == RMin(RDiv(Ph, I(8)), I(12))
             found == ScanBars(1, Ph, Ats, limit)
         IN  IF found # None THEN found
             ELSE <<3, FloorHalf(limit)>>

RECURSIVE ScanBarsDup(_, _, _, _)
ScanBarsDup(i, Ph, Ats, limit) ==
    IF i > Len(bar_options) THEN None
    ELSE IF SpacingFits(area_of_bar_explicit(bar_options[i]), Ats, limit)
         THEN <<bar_options[i], FlooredSpacing(area_of_bar_explicit(bar_options[i]), Ats)>>
         ELSE ScanBarsDup(i + 1, Ph, Ats, limit)

select_stirrup_and_spacing_dup(Ph, Ats) ==
    IF RLe(Ats, Zero)
    THEN <<3, EarlySpacing(Ph)>>
    ELSE LET limit == RMin(IF RLt(Zero, Ph) THEN RDiv(Ph, I(8)) ELSE I(12), I(12))
             found == ScanBarsDup(1, Ph, Ats, limit)
         IN  IF found # None THEN found
             ELSE <<3, FloorHalf(limit)>>

-----------------------------------------------------------------------------
(* Core analysis functions                                                 *)

lamda == I(1)
\* the strength reduction left out
phiOmitted == I(1)

phi == R(3, 4)

\* (4 * lamda * sqrt_fc * (Acp ** 2) / Pcp) / (1000 * 12)     (Pcp # 0)
CrackingTorque(sqrt_fc, Acp, Pcp) ==
    RDiv(RDiv(RMul(RMul(RMul(I(4), lamda), sqrt_fc), RSq(Acp)), Pcp), I(12000))

\* The part of the analysis functions after the gross section is known.
AnalysisTail(b, h, fc, tu_ft, Acp, Pcp, extra) ==
    LET Aoh == RMul(CoreDimAnalysis(b), CoreDimAnalysis(h))
        Ph  == RAdd(RMul(I(2), CoreDimAnalysis(b)), RMul(I(2), CoreDimAnalysis(h)))
        Ao  == RMul(R(85, 100), Aoh)
    IN  IF RLt(fc, Zero) THEN Raise("ValueError", MsgDomain, <<"geometry", "sqrt">>)
        ELSE IF Pcp = Zero
        THEN Raise("ZeroDivisionError", MsgDivZero, <<"geometry", "sqrt", "threshold">>)
        ELSE
        LET sqrt_fc == math_sqrt(fc)
            Tcr == CrackingTorque(sqrt_fc, Acp, Pcp)
            Tth == RDiv(Tcr, I(4))
            safe == RLt(tu_ft, Tth)
        IN  Result([Acp |-> Acp, Pcp |-> Pcp, Aoh |-> Aoh, Ph |-> Ph, Ao |-> Ao,
                    phiTcr |-> RMul(phi, Tcr), Tth |-> Tth, safe |-> safe] @@ extra,
                   <<"geometry", "sqrt", "threshold">>)

analysis_rectangular(b, h, fc, tu_ft) ==
    AnalysisTail(b, h, fc, tu_ft, RMul(b, h), RMul(I(2), RAdd(b, h)), EmptyDict)

analysis_T(b, h, tf, fc, tu_ft) ==
    IF tf = None THEN Raise("TypeError", MsgOperandNone, <<"geometry">>)
    ELSE
    LET x == RMin(RSub(h, tf), RMul(I(4), tf))
        b_total == RAdd(b, RMul(I(2), x))
        Acp == RAdd(RMul(b, h), RMul(RSub(b_total, b), tf))
        Pcp == RAdd(RAdd(RMul(I(2), h), RMul(I(2), b)), RMul(I(2), RSub(b_total, b)))
    IN  AnalysisTail(b, h, fc, tu_ft, Acp, Pcp, [b_total |-> b_total, x |-> x])

analysis_L(b, h, tf, fc, tu_ft) ==
    IF tf = None THEN Raise("TypeError", MsgOperandNone, <<"geometry">>)
    ELSE
    LET x == RMin(RSub(h, tf), RMul(I(4), tf))
        b_total == RAdd(b, x)
        Acp == RAdd(RMul(b, h), RMul(RSub(b_total, b), tf))
        Pcp == RAdd(RAdd(RMul(I(2), h), RMul(I(2), b)), RMul(I(2), RSub(b_total, b)))
    IN  AnalysisTail(b, h, fc, tu_ft, Acp, Pcp, [b_total |-> b_total, x |-> x])

-----------------------------------------------------------------------------
(* Design functions                                                        *)

\* The stages of a design function, in execution order (ghost labels)
StepsDepth     == <<"geometry", "depth">>
StepsSqrt      == StepsDepth \o <<"sqrt">>
StepsThreshold == StepsSqrt \o <<"threshold">>
StepsDemand    == StepsThreshold \o <<"demand">>
StepsCheck     == StepsDemand \o <<"capacity", "check">>
StepsSizing    == StepsCheck \o <<"sizing">>
StepsInfinity  == StepsSizing \o <<"infinity">>
StepsBars      == StepsSizing \o <<"stirrups", "bars">>

\* The two stress terms under the root of demand:
\*   (vu * 1000) / (b * d)   and   tu_in * 1000 * Ph / (1.7 * (Aoh ** 2))
\* A float product out of range is inf, not an error, and so are inf / x,
\* inf ** 2 and math.sqrt(inf): the first term is then Inf (sign dropped)
DemandTerms(vu, tu_in, b, d, Ph, Aoh) ==
    [v |-> IF vu = Huge THEN Inf ELSE RDiv(RMul(vu, I(1000)), RMul(b, d)),
     t |-> RDiv(RMul(RMul(tu_in, I(1000)), Ph), RMul(R(17, 10), RSq(Aoh)))]

RAbs(x) == IF x[1] < 0 THEN RNeg(x) ELSE x

\* demand <= capacity for demand = math.sqrt(v ** 2 + t ** 2); capacity >= 0
DemandLeCapacity(demand, capacity) ==
    IF demand.v = Inf THEN FALSE
    ELSE SumSqLe(RAbs(demand.v), RAbs(demand.t), capacity)

AreaFor(variant, bar) ==
    IF variant = "dup" THEN area_of_bar_explicit(bar) ELSE area_of_bar(bar)

SelectFor(variant, Ph, Ats) ==
    IF variant = "dup" THEN select_stirrup_and_spacing_dup(Ph, Ats)
    ELSE select_stirrup_and_spacing(Ph, Ats)

\* the scan left out: always the default of next(..., 3)
FirstBarDefault(bar, variant, required_per_bar) == 3

RECURSIVE FirstBarFrom(_, _, _)
\* next((bar for bar in range(3, 13) if area(bar) >= required_per_bar), 3)
FirstBarFrom(bar, variant, required_per_bar) ==
    IF bar >= 13 THEN 3
    ELSE IF RLe(required_per_bar, AreaFor(variant, bar)) THEN bar
    ELSE FirstBarFrom(bar + 1, variant, required_per_bar)

\* The sizing branch when Ao <= 0: Al and At_s are float('inf').  The first
\* statements that can fail are the divisions by fy and fyt; otherwise
\* req_bottom is infinite and math.ceil raises OverflowError.
SizingInfinite(a) ==
    IF a.fy = Zero \/ a.fyt = Zero
    THEN Raise("ZeroDivisionError", MsgDivZero, StepsInfinity)
    ELSE Raise("OverflowError", MsgInfToInt, StepsInfinity)

\* The sizing branch is a straight run of assignments.  It is written as a
\* chain of stages; loc holds the local variables assigned so far and
\* results the dict being filled.

\* results.update({...}) and the return
SizingResult(a, variant, loc, results) ==
    LET area_mid == IF loc.mid_bar # 0
                    THEN RMul(I(2), AreaFor(variant, loc.mid_bar)) ELSE Zero
        flag == IF loc.governs THEN [Almin_governs |-> TRUE] ELSE EmptyDict
    IN  Result(flag @@ results @@
               [Al |-> loc.Al, Vn |-> loc.phiVc, Vs |-> loc.Vs, Ats |-> loc.Ats,
                Atsmin |-> loc.Atsmin,
                stirrup_bar |-> loc.sel[1], stirrup_spacing |-> loc.sel[2],
                req_bottom |-> loc.req_bottom, req_mid |-> loc.req_mid,
                req_top |-> loc.req_top,
                num_bottom_bars_needed |-> loc.num_bottom,
                num_top_bars_needed |-> loc.num_top,
                mid_bar |-> loc.mid_bar, area_mid |-> area_mid,
                provided_bottom_by_user |-> RMul(I(a.nl), area_of_bar(a.bar_l)),
                provided_top_by_user |-> IF a.nt > 0 /\ a.bar_top > 0
                                         THEN RMul(I(a.nt), area_of_bar(a.bar_top))
                                         ELSE Zero],
               StepsBars)

\* the bottom bars counted in the size the caller passed
BottomBarOfCaller(bar_l) == bar_l

\* area_bar_8 = area_of_bar(8): the bottom bars are counted in size #8,
\* whatever bar_l the caller passed
BottomReferenceBar(bar_l) == 8

\* num_bottom, num_top, required_per_bar, mid_bar
SizingBars(a, variant, loc, results) ==
    LET area_bar_8 == AreaFor(variant, BottomReferenceBar(a.bar_l))
        area_bar_6 == AreaFor(variant, 6)
        required_per_bar == IF RLt(Zero, loc.req_mid)
                            THEN RDiv(loc.req_mid, I(2)) ELSE Zero
    IN  SizingResult(a, variant,
            loc @@ [num_bottom |-> IF RLt(Zero, area_bar_8)
                                   THEN CeilQuot(loc.req_bottom, area_bar_8) ELSE 0,
                    num_top |-> IF RLt(Zero, area_bar_6)
                                THEN CeilQuot(loc.req_top, area_bar_6) ELSE 0,
                    mid_bar |-> FirstBarFrom(3, variant, required_per_bar)],
            results)

\* Al / 2.0 written for Al / 3.0
TorsionShareHalf(Al) == RDiv(Al, I(2))

\* Al / 3.0, the part of the torsion steel added at each of three levels
TorsionShare(Al) == RDiv(Al, I(3))

\* the stirrup selection, req_bottom, req_mid, top_bars_area, req_top
SizingStirrups(a, variant, g, loc, results) ==
    LET top_bars_area == IF a.nt > 0 /\ a.bar_top > 0
                         THEN RMul(I(a.nt), AreaFor(variant, a.bar_top)) ELSE Zero
    IN  SizingBars(a, variant,
            loc @@ [sel |-> SelectFor(variant, g.Ph, loc.Ats),
                    req_bottom |-> RAdd(a.As_flexure, TorsionShare(loc.Al)),
                    req_mid |-> TorsionShare(loc.Al),
                    req_top |-> RAdd(top_bars_area, TorsionShare(loc.Al))],
            results)

\* Ats passed on as computed, the minimum not applied
TransverseSteelAsComputed(Ats, Atsmin) == Ats

\* if Ats < Atsmin: Ats = Atsmin
TransverseSteel(Ats, Atsmin) == IF RLt(Ats, Atsmin) THEN Atsmin ELSE Ats

\* Atsmin, then the minimum applied to Ats
SizingAtsmin(a, variant, g, loc, results) ==
    LET Atsmin == RMax(RDiv(RMul(RMul(R(3, 4), loc.sqrt_fc), a.b), RMul(I(1000), a.fyt)),
                       RDiv(RMul(I(50), a.b), RMul(I(1000), a.fyt)))
    IN  SizingStirrups(a, variant, g,
            loc @@ [Atsmin |-> Atsmin,
                    Ats |-> TransverseSteel(loc.Ats0, Atsmin)],
            results)

\* (vu - Vn) / phi, the max(0.0, ...) left out
ShearSteelUnclamped(vu, Vn) == RDiv(RSub(vu, Vn), phi)

\* Vs = max(0.0, (vu - Vn) / phi)
ShearSteel(vu, Vn) == RMax(Zero, RDiv(RSub(vu, Vn), phi))

\* The test "if Al < Almin" left out
AlminNeverGoverns(Al, Almin) == FALSE

\* if Al < Almin
AlminGoverns(Al, Almin) == RLt(Al, Almin)

\* "if Al < Almin: Al = Almin", then Vn, Vs, x, Ats
SizingShear(a, variant, g, loc, results) ==
    LET Vs == ShearSteel(a.vu, loc.phiVc)
    IN  SizingAtsmin(a, variant, g,
            loc @@ [governs |-> AlminGoverns(loc.Al0, loc.Almin),
                    Al |-> IF AlminGoverns(loc.Al0, loc.Almin) THEN loc.Almin ELSE loc.Al0,
                    Vs |-> Vs,
                    Ats0 |-> RAdd(RDiv(Vs, RMul(a.fyt, loc.d)),
                                  RMul(I(2), loc.At_s))],
            results)

\* term1, term2, Almin
SizingAlmin(a, variant, g, loc, results) ==
    LET base == RDiv(RMul(RMul(I(5), loc.sqrt_fc), g.Acp), RMul(I(1000), a.fy))
        term1 == RSub(base, RDiv(RMul(RMul(loc.At_s, g.Ph), a.fyt), a.fy))
        term2 == RSub(base, RDiv(RMul(RMul(RDiv(RMul(I(25), a.b), a.fyt), g.Ph),
                                      a.fyt), a.fy))
    IN  SizingShear(a, variant, g, loc @@ [Almin |-> RMax(term1, term2)], results)

\* phi * 2 * Ao * fy, the divisor of Al and At_s
TorsionSteelDivisor(Ao, fy) == RMul(RMul(RMul(phi, I(2)), Ao), fy)

\* The sizing branch (demand <= capacity) with Ao > 0: Al and At_s
Sizing(a, variant, g, loc, results) ==
    IF a.fy = Zero \/ a.fyt = Zero
    THEN Raise("ZeroDivisionError", MsgDivZero, StepsSizing)
    ELSE SizingAlmin(a, variant, g,
            loc @@ [Al0 |-> RDiv(RMul(loc.tu_in, g.Ph), TorsionSteelDivisor(g.Ao, a.fy)),
                    At_s |-> RDiv(loc.tu_in, TorsionSteelDivisor(g.Ao, a.fy))],
            results)

\* demand = math.sqrt(...): raises ZeroDivisionError when b * d or Aoh ** 2 is 0
DemandDefined(b, d, Aoh) == RMul(b, d) # Zero /\ RSq(Aoh) # Zero

\* phiVc, capacity, results = {...} and "if demand <= capacity"
DesignCheck(a, variant, g, loc) ==
    LET phiVc == RDiv(RMul(phi, loc.Vc), I(1000))
        capacity == RMul(phi, RAdd(RDiv(loc.Vc, RMul(a.b, loc.d)),
                                   RMul(I(8), loc.sqrt_fc)))
        results == [phiTcr |-> loc.phiTcr, Tth |-> loc.Tth, demand |-> loc.demand,
                    Vc |-> loc.Vc, phiVc |-> phiVc, capacity |-> capacity]
    IN  IF DemandLeCapacity(loc.demand, capacity)
        THEN IF RLt(Zero, g.Ao)
             THEN Sizing(a, variant, g, loc @@ [phiVc |-> phiVc], results)
             ELSE SizingInfinite(a)
        ELSE Result(results @@ [demand_exceeds_capacity |-> TRUE], StepsCheck)

\* Tu below the threshold
BelowThreshold(tu, Tth) == RLt(tu, Tth)

\* Tth, "if tu < Tth: return ...", demand and Vc
DesignThreshold(a, variant, g, loc) ==
    LET Tth == RDiv(loc.phiTcr, I(4))
    IN  IF BelowThreshold(a.tu, Tth)
        THEN Result([safe |-> TRUE, phiTcr |-> loc.phiTcr, Tth |-> Tth], StepsThreshold)
        ELSE IF ~DemandDefined(a.b, loc.d, g.Aoh)
        THEN Raise("ZeroDivisionError", MsgDivZero, StepsDemand)
        ELSE DesignCheck(a, variant, g,
                loc @@ [Tth |-> Tth,
                        demand |-> DemandTerms(a.vu, loc.tu_in, a.b, loc.d, g.Ph, g.Aoh),
                        Vc |-> RMul(RMul(RMul(RMul(I(2), lamda), loc.sqrt_fc), a.b),
                                    loc.d)])

\* "if d < 0" written for "if d <= 0"
DepthNotNegative(d) == RLe(Zero, d)

\* Depth greater than zero
DepthPositive(d) == RLt(Zero, d)

\* "if d <= 0: raise", tu_in, sqrt_fc, phiTcr
DesignDepth(a, variant, g, loc) ==
    IF ~DepthPositive(loc.d) THEN Raise("ValueError", MsgDepth, StepsDepth)
    ELSE IF RLt(a.fc, Zero) THEN Raise("ValueError", MsgDomain, StepsSqrt)
    ELSE IF g.Pcp = Zero THEN Raise("ZeroDivisionError", MsgDivZero, StepsThreshold)
    ELSE DesignThreshold(a, variant, g,
            loc @@ [tu_in |-> RMul(a.tu, I(12)),
                    sqrt_fc |-> math_sqrt(a.fc),
                    phiTcr |-> RMul(phi, CrackingTorque(math_sqrt(a.fc), g.Acp, g.Pcp))])

\* A design function from the statement after vals = ...geometry(...) on.
DesignTail(a, variant, vals) ==
    IF vals.kind = "raise" THEN vals
    ELSE DesignDepth(a, variant, vals.value, [d |-> RSub(a.h, R(5, 2))])

design_rectangular(a) ==
    DesignTail(a, "orig", compute_section_geometry(a.b, a.h, "Rectangular", None))

design_T(a) ==
    DesignTail(a, "dup", compute_section_geometry_dup(a.b, a.h, "T Section", a.tf))

design_L(a) ==
    DesignTail(a, "orig", compute_section_geometry(a.b, a.h, "L Section", a.tf))

-----------------------------------------------------------------------------
(* Inputs                                                                  *)

\* Largest whole torsion (kip-ft) and shear step tried
MaxTu == 5
MaxVuSteps == 2

\* Tu = Tth of the 8 x 12 rectangular design at fc = 3600
TuAtThreshold == R(108, 125)
\* Tu at which demand = capacity for the 8 x 11.75 rectangular design,
\* fc = 3600, Vu = 0
TuAtCapacity == R(6375, 832)

Absent == [present |-> FALSE, value |-> EmptyDict]
Present(v) == [present |-> TRUE, value |-> v]

BaseArgs ==
    [b |-> I(8), h |-> I(12), tf |-> I(4), fc |-> I(3600), fy |-> I(60),
     fyt |-> I(60), tu |-> I(5), vu |-> I(10), bar_l |-> 6, nl |-> 2,
     As_flexure |-> R(1, 2), nt |-> 0, bar_top |-> 6]

\* Geometry and concrete strength, valid and invalid
GeometrySweep ==
    {[BaseArgs EXCEPT !.b = b, !.h = h, !.tf = tf, !.fc = fc, !.tu = tu] :
        b \in {I(-12), I(-1), Zero, I(1), I(8)},
        h \in {I(-1), Zero, I(2), R(5, 2), I(12)},
        tf \in {None, I(-1), Zero, I(4), I(20)},
        fc \in {I(-100), Zero, I(3600)},
        tu \in {Zero, TuAtThreshold, I(MaxTu)}}

\* Loads and steel on sound geometry
LoadSweep ==
    {[BaseArgs EXCEPT !.h = h, !.tf = tf, !.fc = fc, !.fy = fy, !.fyt = fyt,
                      !.tu = tu, !.vu = vu, !.nt = nt] :
        h \in {R(47, 4), I(12)},
        tf \in {I(1), I(4)},
        fc \in {Zero, I(2500), I(3600)},
        fy \in {Zero, I(60)},
        fyt \in {Zero, I(40), I(60)},
        tu \in {I(t) : t \in 0..MaxTu} \cup {TuAtThreshold, TuAtCapacity, I(50)},
        vu \in {I(50 * k) : k \in 0..MaxVuSteps} \cup {I(10)},
        nt \in {0, 2}}

\* A web narrower than the cover deduction, under light torsion
SlenderSweep ==
    {[BaseArgs EXCEPT !.b = I(1), !.vu = Zero, !.tu = R(1, 10), !.fy = fy] :
        fy \in {Zero, I(60)}}

\* A shear load near the top of the float range
OverflowSweep ==
    {[BaseArgs EXCEPT !.vu = Huge, !.tu = tu] : tu \in {Zero, I(MaxTu)}}

\* A concrete strength whose root is not a whole number, without torsion
ScenarioSweep ==
    {[BaseArgs EXCEPT !.fc = I(4000), !.tu = Zero]}

\* The caller's bars: sizes of the table, a size missing from it (#12) and
\* no size (0), with and without a count
BarSweep ==
    {[BaseArgs EXCEPT !.bar_l = bar_l, !.nl = nl, !.bar_top = bar_top, !.nt = nt,
                      !.tu = tu] :
        bar_l \in {3, 6, 9},
        nl \in {0, 2, 3},
        bar_top \in {0, 5, 6, 12},
        nt \in {0, 2},
        tu \in {I(1), I(MaxTu)}}

\* Much torsion steel for the section: a longitudinal steel of low yield
\* strength (the steel area grows with Tu / fy, as it does with the size of
\* the section under a torsion near its capacity)
HeavySweep ==
    {[BaseArgs EXCEPT !.fy = fy, !.tu = tu] :
        fy \in {I(2), I(10)}, tu \in {I(1), I(MaxTu)}}

\* A flange thicker than the section is deep, without torsion
ThickFlangeSweep ==
    {[BaseArgs EXCEPT !.tf = I(tf), !.tu = Zero] : tf \in {13, 22}}

EngineInputs ==
    GeometrySweep \cup LoadSweep \cup SlenderSweep \cup OverflowSweep \cup ScenarioSweep
        \cup BarSweep \cup HeavySweep \cup ThickFlangeSweep

SectionTypes == {"Rectangular Section", "T Section", "L Section"}

-----------------------------------------------------------------------------
(* The engine called directly: one invocation of one entry point           *)

\* No entry point invoked yet
NoEntry == [name |-> "", section_type |-> ""]

Init ==
    /\ BAR_DIAMETERS = BarDiametersInit
    /\ args \in EngineInputs
    /\ entry = NoEntry
    /\ outcome = NoOutcome
    /\ mode = "Analysis"
    /\ want_section = "Rectangular Section"
    /\ last_inputs = Absent
    /\ last_calc = Absent
    /\ draw_checkbox = FALSE
    /\ pinned = Absent
    /\ runs = 0

Invoke(name, section_type, out) ==
    /\ entry = NoEntry
    /\ entry' = [name |-> name, section_type |-> section_type]
    /\ outcome' = out
    /\ UNCHANGED <<BAR_DIAMETERS, args, mode, want_section, last_inputs,
                   last_calc, draw_checkbox, pinned, runs>>

Call_compute_section_geometry ==
    \E st \in SectionTypes \cup {"Rectangular"} :
        Invoke("compute_section_geometry", st,
               compute_section_geometry(args.b, args.h, st,
                   IF st \in {"T Section", "L Section"} THEN args.tf ELSE None))

Call_compute_section_geometry_dup ==
    \E st \in SectionTypes \cup {"Rectangular"} :
        Invoke("compute_section_geometry_dup", st,
               compute_section_geometry_dup(args.b, args.h, st,
                   IF st \in {"T Section", "L Section"} THEN args.tf ELSE None))

Call_analysis_rectangular ==
    Invoke("analysis_rectangular", "Rectangular",
           analysis_rectangular(args.b, args.h, args.fc, args.tu))

Call_analysis_T ==
    Invoke("analysis_T", "T Section", analysis_T(args.b, args.h, args.tf, args.fc, args.tu))

Call_analysis_L ==
    Invoke("analysis_L", "L Section", analysis_L(args.b, args.h, args.tf, args.fc, args.tu))

Call_design_rectangular == Invoke("design_rectangular", "Rectangular", design_rectangular(args))

Call_design_T == Invoke("design_T", "T Section", design_T(args))

Call_design_L == Invoke("design_L", "L Section", design_L(args))

Next ==
    \/ Call_compute_section_geometry
    \/ Call_compute_section_geometry_dup
    \/ Call_analysis_rectangular
    \/ Call_analysis_T
    \/ Call_analysis_L
    \/ Call_design_rectangular
    \/ Call_design_T
    \/ Call_design_L

Spec == Init /\ [][Next]_vars

-----------------------------------------------------------------------------
(* The stirrup selector called directly, again and again on one perimeter  *)

\* Hoop perimeters: none, too short for any spacing, and Ph / 8 below 4,
\* between 4 and 12, equal to 12 and above 12
PhValues == {I(-8), Zero, I(2), I(16), I(34), I(48), I(64), I(96), I(200)}

\* Required stirrup areas per unit length: none, and values on both sides of
\* the points where a bar's spacing 2 * Av / Ats meets 4 or min(Ph / 8, 12)
AtsValues ==
    {R(-1, 10), Zero, R(1, 100), R(110447, 3000000), R(1, 20),
     R(110447, 2000000), R(7, 125), R(1, 10), R(9, 20), I(1)}

SelectorEntries == {"select_stirrup_and_spacing", "select_stirrup_and_spacing_dup"}

\* return selected_bar, final_spacing
Selection(sel) == Result([bar |-> sel[1], spacing |-> sel[2]], <<"stirrups">>)

InitSelector ==
    /\ BAR_DIAMETERS = BarDiametersInit
    /\ args \in {[Ph |-> Ph, Ats |-> Zero] : Ph \in PhValues}
    /\ entry = NoEntry
    /\ outcome = NoOutcome
    /\ mode = "Analysis"
    /\ want_section = "Rectangular Section"
    /\ last_inputs = Absent
    /\ last_calc = Absent
    /\ draw_checkbox = FALSE
    /\ pinned = Absent
    /\ runs = 0

Call_select_stirrup_and_spacing ==
    \E Ats \in AtsValues :
        /\ args' = [args EXCEPT !.Ats = Ats]
        /\ entry' = [name |-> "select_stirrup_and_spacing", section_type |-> ""]
        /\ outcome' = Selection(select_stirrup_and_spacing(args.Ph, Ats))
        /\ UNCHANGED <<BAR_DIAMETERS, mode, want_section, last_inputs,
                       last_calc, draw_checkbox, pinned, runs>>

Call_select_stirrup_and_spacing_dup ==
    \E Ats \in AtsValues :
        /\ args' = [args EXCEPT !.Ats = Ats]
        /\ entry' = [name |-> "select_stirrup_and_spacing_dup", section_type |-> ""]
        /\ outcome' = Selection(select_stirrup_and_spacing_dup(args.Ph, Ats))
        /\ UNCHANGED <<BAR_DIAMETERS, mode, want_section, last_inputs,
                       last_calc, draw_checkbox, pinned, runs>>

NextSelector ==
    \/ Call_select_stirrup_and_spacing
    \/ Call_select_stirrup_and_spacing_dup

SpecSelector == InitSelector /\ [][NextSelector]_vars

-----------------------------------------------------------------------------
(* The Streamlit script: every event reruns it from top to bottom          *)

\* Run Calculation events per session
MaxRuns == 3

\* What the user types into the widgets: a beam that needs torsion steel
\* and one whose concrete strength is not a strength
UIInputs ==
    {BaseArgs, [BaseArgs EXCEPT !.tu = Zero, !.fc = I(-100)]}

\* The values the script passes on in this run: tf is None for a rectangular
\* section; in Analysis mode the design-only inputs are fixed defaults
ScriptArgs(m, section, w) ==
    LET tf == IF section \in {"T Section", "L Section"} THEN w.tf ELSE None
    IN  IF m = "Design" THEN [w EXCEPT !.tf = tf]
        ELSE [w EXCEPT !.tf = tf, !.fy = I(60), !.fyt = I(60), !.nl = 0,
                       !.bar_l = 3, !.nt = 0, !.bar_top = 3, !.As_flexure = Zero]

\* The engine function the run_calc block calls for this mode and section
EngineName(m, section) ==
    IF m = "Analysis"
    THEN (IF section = "Rectangular Section" THEN "analysis_rectangular"
          ELSE IF section = "T Section" THEN "analysis_T" ELSE "analysis_L")
    ELSE (IF section = "Rectangular Section" THEN "design_rectangular"
          ELSE IF section = "T Section" THEN "design_T" ELSE "design_L")

EngineCall(m, section, a) ==
    IF m = "Analysis"
    THEN (IF section = "Rectangular Section"
          THEN analysis_rectangular(a.b, a.h, a.fc, a.tu)
          ELSE IF section = "T Section"
          THEN analysis_T(a.b, a.h, a.tf, a.fc, a.tu)
          ELSE analysis_L(a.b, a.h, a.tf, a.fc, a.tu))
    ELSE (IF section = "Rectangular Section" THEN design_rectangular(a)
          ELSE IF section = "T Section" THEN design_T(a)
          ELSE design_L(a))

\* The drawing block: with the checkbox ticked and a stored calculation, in
\* Analysis mode it assigns three keys of that dict in place
DrawingBlock(checked, m, lc) ==
    IF checked /\ lc.present /\ m = "Analysis"
    THEN Present([mid_bar |-> 0, stirrup_bar |-> 0, stirrup_spacing |-> Zero]
                 @@ lc.value)
    ELSE lc

\* The report block only reads last_calc
ReportBlock(lc) == lc

\* BAR_DIAMETERS.pop(8, 0) written for BAR_DIAMETERS.get(8, 0)
TableAfterCallPop(table) == [k \in DOMAIN table \ {8} |-> table[k]]

\* What the engine leaves in BAR_DIAMETERS: it only reads the table
TableAfterCall(table) == table

\* A script run in which neither button was pressed
Rerun(m, section, w, checked) ==
    /\ mode' = m
    /\ want_section' = section
    /\ args' = w
    /\ draw_checkbox' = checked
    /\ last_calc' = DrawingBlock(checked, m, last_calc)
    /\ UNCHANGED <<BAR_DIAMETERS, entry, outcome, last_inputs, pinned, runs>>

EditInputs == \E w \in UIInputs : Rerun(mode, want_section, w, draw_checkbox)

SetMode == \E m \in {"Analysis", "Design"} :
    Rerun(m, want_section, args, draw_checkbox)

SetSection == \E section \in SectionTypes :
    Rerun(mode, section, args, draw_checkbox)

ToggleDraw == Rerun(mode, want_section, args, ~draw_checkbox)

\* What the run_calc block leaves behind once the engine call has ended
StoreRun(m, section, a, vals, out, lc) ==
    [name |-> EngineName(m, section), args |-> a, outcome |-> out,
     last_inputs |-> Present(a @@ [section |-> section, mode |-> m]),
     last_calc |-> IF out.kind = "result" THEN Present(out.value @@ vals.value)
                   ELSE lc]

\* After vals = compute_section_geometry(...): last_inputs, the engine call
AfterGeometry(m, section, a, vals, li, lc) ==
    IF vals.kind # "result"
    THEN [name |-> "compute_section_geometry", args |-> a, outcome |-> vals,
          last_inputs |-> li, last_calc |-> lc]
    ELSE StoreRun(m, section, a, vals, EngineCall(m, section, a), lc)

\* The run_calc block: what it calls and what it stores in the session
RunCalcBlock(m, section, a, li, lc) ==
    AfterGeometry(m, section, a,
                  compute_section_geometry(a.b, a.h, section, a.tf), li, lc)

\* "Run Calculation" pressed: the run_calc block, then the drawing block
RunCalculation ==
    \E r \in {RunCalcBlock(mode, want_section,
                          ScriptArgs(mode, want_section, args),
                          last_inputs, last_calc)} :
        /\ runs < MaxRuns
        /\ runs' = runs + 1
        /\ BAR_DIAMETERS' = TableAfterCall(BAR_DIAMETERS)
        /\ entry' = [name |-> r.name, section_type |-> want_section]
        /\ outcome' = r.outcome
        /\ last_inputs' = r.last_inputs
        /\ last_calc' = DrawingBlock(draw_checkbox, mode, r.last_calc)
        /\ \/ pinned' = pinned
           \/ /\ ~pinned.present
              /\ r.name # "compute_section_geometry"
              /\ pinned' = Present([entry |-> entry', inputs |-> r.last_inputs.value,
                                    outcome |-> r.outcome, at |-> runs'])
        /\ UNCHANGED <<args, mode, want_section, draw_checkbox>>

\* "Generate professional PDF report" pressed: drawing block, report block
GenerateReport ==
    /\ last_calc' = ReportBlock(DrawingBlock(draw_checkbox, mode, last_calc))
    /\ UNCHANGED <<BAR_DIAMETERS, args, entry, outcome, mode, want_section,
                   last_inputs, draw_checkbox, pinned, runs>>

InitUI ==
    /\ BAR_DIAMETERS = BarDiametersInit
    /\ args \in UIInputs
    /\ entry = NoEntry
    /\ outcome = NoOutcome
    /\ mode = "Analysis"
    /\ want_section = "Rectangular Section"
    /\ last_inputs = Absent
    /\ last_calc = Absent
    /\ draw_checkbox = FALSE
    /\ pinned = Absent
    /\ runs = 0

NextUI ==
    \/ EditInputs
    \/ SetMode
    \/ SetSection
    \/ ToggleDraw
    \/ RunCalculation
    \/ GenerateReport

SpecUI == InitUI /\ [][NextUI]_vars

-----------------------------------------------------------------------------
(* Properties of the engine, stated on the invocation record                *)

DesignEntries == {"design_rectangular", "design_T", "design_L"}
AnalysisEntries == {"analysis_rectangular", "analysis_T", "analysis_L"}
GeometryEntries == {"compute_section_geometry", "compute_section_geometry_dup"}

\* The section an invocation works on is flanged
Flanged ==
    \/ entry.name \in {"analysis_T", "analysis_L", "design_T", "design_L"}
    \/ /\ entry.name \in GeometryEntries
       /\ entry.section_type \in {"T Section", "L Section"}

\* The gross section a design entry point derives first
DesignGeometry ==
    IF entry.name = "design_T"
    THEN compute_section_geometry_dup(args.b, args.h, "T Section", args.tf)
    ELSE IF entry.name = "design_L"
    THEN compute_section_geometry(args.b, args.h, "L Section", args.tf)
    ELSE compute_section_geometry(args.b, args.h, "Rectangular", None)

\* Tth of the design path is a number: the geometry exists, fc has a root
\* and the perimeter is not zero
DesignTthDefined ==
    /\ DesignGeometry.kind = "result"
    /\ ~RLt(args.fc, Zero)
    /\ DesignGeometry.value.Pcp # Zero

DesignTth ==
    RDiv(RMul(phi, CrackingTorque(math_sqrt(args.fc), DesignGeometry.value.Acp,
                                  DesignGeometry.value.Pcp)), I(4))

Keys(o) == DOMAIN o.value

ReinforcementFields ==
    {"Al", "Ats", "Atsmin", "stirrup_bar", "stirrup_spacing", "req_bottom",
     "req_mid", "req_top", "num_bottom_bars_needed", "num_top_bars_needed",
     "mid_bar", "area_mid"}

\* A failure the code states itself with a raise statement, as opposed to a
\* fault of the language runtime (division by zero, math domain, None operand)
ExplicitFailure(o) ==
    /\ o.kind = "raise"
    /\ o.exc \notin {"ZeroDivisionError", "TypeError", "OverflowError"}
    /\ o.msg # MsgDomain

\* C1: in every design entry point with d > 0 (and a Tth to compare with):
\* when Tu < Tth the call returns exactly {safe = true, phiTcr, Tth} and
\* never reaches the demand computation; when Tu >= Tth, equality included,
\* no safe = true flag is returned and the demand-versus-capacity check is
\* performed.
C1_ThresholdDecides ==
    (entry.name \in DesignEntries /\ RLt(R(5, 2), args.h) /\ DesignTthDefined) =>
        IF RLt(args.tu, DesignTth)
        THEN /\ outcome.kind = "result"
             /\ Keys(outcome) = {"safe", "phiTcr", "Tth"}
             /\ outcome.value.safe = TRUE
             /\ ~Has(outcome.steps, "demand")
        ELSE /\ ~(outcome.kind = "result" /\ "safe" \in Keys(outcome))
             /\ Has(outcome.steps, "check")

\* C2: in every design entry point, once the demand-versus-capacity check
\* is reached the call returns normally; demand <= capacity (equality
\* included) gives a result with every reinforcement field, demand > capacity
\* gives demand_exceeds_capacity = true and no reinforcement field.
C2_CapacityDecides ==
    (entry.name \in DesignEntries /\ Has(outcome.steps, "check")) =>
        /\ outcome.kind = "result"
        /\ IF DemandLeCapacity(outcome.value.demand, outcome.value.capacity)
           THEN /\ ReinforcementFields \subseteq Keys(outcome)
                /\ "demand_exceeds_capacity" \notin Keys(outcome)
           ELSE /\ "demand_exceeds_capacity" \in Keys(outcome)
                /\ outcome.value.demand_exceeds_capacity = TRUE
                /\ ReinforcementFields \cap Keys(outcome) = {}

\* C3: every design entry point called with h <= 2.5 ends in an error and
\* returns no result, whatever the other inputs are; no analysis entry point
\* applies the depth check.
C3_DepthCheckDesignOnly ==
    /\ (entry.name \in DesignEntries /\ RLe(args.h, R(5, 2))) =>
           outcome.kind = "raise"
    /\ entry.name \in AnalysisEntries =>
           /\ ~Has(outcome.steps, "depth")
           /\ outcome.msg # MsgDepth
           /\ (outcome.kind = "raise" =>
                  \/ RLt(args.fc, Zero)
                  \/ outcome.exc \in {"TypeError", "ZeroDivisionError"})

\* C3 witness: a design call with h <= 2.5 and Tu below every threshold has
\* raised the depth error
C3_Witness ==
    /\ entry.name \in DesignEntries
    /\ args.h = R(5, 2)
    /\ args.tu = Zero
    /\ args.b = I(8)
    /\ args.fc = I(3600)
    /\ outcome.kind = "raise"
    /\ outcome.msg = MsgDepth

\* b <= 0, h <= 0, or a flanged section whose tf is missing or not positive
InvalidGeometryInput ==
    \/ RLe(args.b, Zero)
    \/ RLe(args.h, Zero)
    \/ Flanged /\ (IF args.tf = None THEN TRUE ELSE RLe(args.tf, Zero))

\* C4: every analysis and design entry point and the geometry helper fail
\* with an explicit geometry failure, and return no result, on b <= 0,
\* h <= 0, or a T or L section whose tf is missing or not positive.
C4_InvalidGeometryRejected ==
    (entry # NoEntry /\ InvalidGeometryInput) => ExplicitFailure(outcome)

\* C5: every analysis and design entry point fails with an explicit material
\* failure, and returns no result, whenever fc <= 0 (fc = 0 included).
C5_InvalidConcreteRejected ==
    (entry.name \in AnalysisEntries \cup DesignEntries /\ RLe(args.fc, Zero)) =>
        ExplicitFailure(outcome)

\* C6: on the design path, when sizing is reached with fy = 0 or fyt = 0 the
\* call ends in an explicit failure raised by a guard before the division,
\* never in a division-by-zero fault or a returned result.
C6_ZeroSteelGuarded ==
    (/\ entry.name \in DesignEntries
     /\ Has(outcome.steps, "sizing")
     /\ (args.fy = Zero \/ args.fyt = Zero)) =>
        ExplicitFailure(outcome)

\* A returned dict holds an infinite value (demand is the one field that a
\* run of the model can make infinite)
HoldsInfinity(o) ==
    /\ o.kind = "result"
    /\ "demand" \in Keys(o)
    /\ o.value.demand.v = Inf

\* C7: no result returned by a design entry point holds an infinite value;
\* the branch that sets Al and At/s to infinity (Ao <= 0) is never entered,
\* because Ao <= 0 makes Aoh = 0 and the demand computation divides by Aoh
\* squared first.
C7_NoInfinityInResults ==
    entry.name \in DesignEntries =>
        /\ ~HoldsInfinity(outcome)
        /\ ~Has(outcome.steps, "infinity")
        /\ Has(outcome.steps, "sizing") => RLt(Zero, DesignGeometry.value.Ao)
        /\ (DesignGeometry.kind = "result" /\ RLe(DesignGeometry.value.Ao, Zero)) =>
               /\ DesignGeometry.value.Aoh = Zero
               /\ ~Has(outcome.steps, "check")

\* C10: whenever the geometry derivation of the analysis path or of the
\* design path returns, Aoh >= 0, Ph >= 0 and Ao = 0.85 * Aoh, and Aoh = 0
\* when a core dimension reduced by the cover would be negative.
C10_CoreAreaClamped ==
    (/\ entry.name \in AnalysisEntries \cup GeometryEntries
     /\ outcome.kind = "result") =>
        /\ RLe(Zero, outcome.value.Aoh)
        /\ RLe(Zero, outcome.value.Ph)
        /\ outcome.value.Ao = RMul(R(85, 100), outcome.value.Aoh)
        /\ LET deduction == IF entry.name \in GeometryEntries
                            THEN R(7, 4) ELSE R(3, 2)
           IN  (RLt(args.b, deduction) \/ RLt(args.h, deduction)) =>
                   outcome.value.Aoh = Zero

\* C10 witness: both derivations have returned for a dimension smaller than
\* the deduction (in different calls); here the analysis one
C10_Witness ==
    /\ entry.name \in AnalysisEntries
    /\ outcome.kind = "result"
    /\ RLt(args.b, R(3, 2))
    /\ RLt(Zero, args.b)
    /\ RLt(R(3, 2), args.h)
    /\ outcome.value.Aoh = Zero

\* The design entry point of the section an analysis entry point works on,
\* called with the same arguments
DesignCounterpart ==
    IF entry.name = "analysis_T" THEN design_T(args)
    ELSE IF entry.name = "analysis_L" THEN design_L(args)
    ELSE design_rectangular(args)

\* C11: for the same section, b, h, tf and fc the analysis and the design
\* entry point return the same phiTcr and the same Tth, Tth is phiTcr / 4 on
\* both paths, and both reach the same safe / not-safe decision for the same
\* Tu.
C11_ThresholdSharedByPaths ==
    (/\ entry.name \in AnalysisEntries
     /\ outcome.kind = "result"
     /\ DesignCounterpart.kind = "result") =>
        /\ outcome.value.Tth = RDiv(outcome.value.phiTcr, I(4))
        /\ DesignCounterpart.value.Tth = RDiv(DesignCounterpart.value.phiTcr, I(4))
        /\ outcome.value.phiTcr = DesignCounterpart.value.phiTcr
        /\ outcome.value.Tth = DesignCounterpart.value.Tth
        /\ outcome.value.safe = ("safe" \in DOMAIN DesignCounterpart.value)

\* x rounded to four decimals is n / 10000
RoundsTo(x, n) ==
    /\ RLe(R(2 * n - 1, 20000), x)
    /\ RLt(x, R(2 * n + 1, 20000))

\* C12: analysis_rectangular with b = 8, h = 12, fc = 4000 and Tu = 0 returns
\* Acp = 96, Pcp = 40, Aoh = 68.25, Ph = 34, Ao = 58.0125, safe = true,
\* Tth = 1.2143 and phiTcr = 3.6429 to four decimals, phiTcr being three
\* times Tth.
C12_ScenarioRectangularSafe ==
    (/\ entry.name = "analysis_rectangular"
     /\ args.b = I(8) /\ args.h = I(12) /\ args.fc = I(4000) /\ args.tu = Zero) =>
        /\ outcome.kind = "result"
        /\ outcome.value.Acp = I(96)
        /\ outcome.value.Pcp = I(40)
        /\ outcome.value.Aoh = R(6825, 100)
        /\ outcome.value.Ph = I(34)
        /\ outcome.value.Ao = R(580125, 10000)
        /\ outcome.value.safe = TRUE
        /\ RoundsTo(outcome.value.Tth, 12143)
        /\ RoundsTo(outcome.value.phiTcr, 36429)
        /\ outcome.value.phiTcr = RMul(I(3), outcome.value.Tth)

\* C12 witness: the scenario has been run and has returned
C12_Witness ==
    /\ entry.name = "analysis_rectangular"
    /\ args.b = I(8) /\ args.h = I(12) /\ args.fc = I(4000) /\ args.tu = Zero
    /\ outcome.kind = "result"
    /\ "Tth" \in DOMAIN outcome.value

\* x less the deduction, and 0 when that is negative
Reduced(x, deduction) == IF RLt(x, deduction) THEN Zero ELSE RSub(x, deduction)

\* Aoh and Ph of the core left by a deduction from the web width b and the
\* height h, whatever the flange
CoreArea(deduction) == RMul(Reduced(args.b, deduction), Reduced(args.h, deduction))
CorePerimeter(deduction) ==
    RMul(I(2), RAdd(Reduced(args.b, deduction), Reduced(args.h, deduction)))

\* C18: every analysis entry point derives Aoh and Ph from b - 1.5 and
\* h - 1.5, every design entry point (through the geometry helper it calls,
\* and in the torsion term of its demand) from b - 1.75 and h - 1.75, each
\* reduced dimension clamped at 0; for T and L sections too only the web
\* width b and the height h enter, never the flange.
C18_CoreDerivationByCallSite ==
    /\ (entry.name \in AnalysisEntries /\ outcome.kind = "result") =>
           /\ outcome.value.Aoh = CoreArea(R(3, 2))
           /\ outcome.value.Ph = CorePerimeter(R(3, 2))
    /\ (entry.name \in GeometryEntries /\ outcome.kind = "result") =>
           /\ outcome.value.Aoh = CoreArea(R(7, 4))
           /\ outcome.value.Ph = CorePerimeter(R(7, 4))
    /\ (/\ entry.name \in DesignEntries
        /\ outcome.kind = "result"
        /\ "demand" \in DOMAIN outcome.value) =>
           /\ DesignGeometry.value.Aoh = CoreArea(R(7, 4))
           /\ outcome.value.demand.t =
                  RDiv(RMul(RMul(args.tu, I(12000)), CorePerimeter(R(7, 4))),
                       RMul(R(17, 10), RSq(CoreArea(R(7, 4)))))

\* C18 witness: a flanged section has gone through the analysis derivation
\* with a flange wider than the web, and the result differs from what the
\* design derivation gives
C18_Witness ==
    /\ entry.name = "analysis_T"
    /\ outcome.kind = "result"
    /\ RLt(args.b, outcome.value.b_total)
    /\ outcome.value.Aoh = CoreArea(R(3, 2))
    /\ outcome.value.Aoh # CoreArea(R(7, 4))

\* Flange overhangs of the section an invocation works on: 2 (T), 1 (L), 0
FlangeSides ==
    IF entry.section_type = "T Section" THEN 2
    ELSE IF entry.section_type = "L Section" THEN 1 ELSE 0

\* min(4 * tf, h - tf)
Overhang ==
    IF RLt(RSub(args.h, args.tf), RMul(I(4), args.tf))
    THEN RSub(args.h, args.tf) ELSE RMul(I(4), args.tf)

\* bf - b: the overhangs together; nothing for a rectangular section
FlangeWidth == IF FlangeSides = 0 THEN Zero ELSE RMul(I(FlangeSides), Overhang)

\* b * h + (bf - b) * tf, which is b * h for a rectangular section
GrossArea ==
    IF FlangeSides = 0 THEN RMul(args.b, args.h)
    ELSE RAdd(RMul(args.b, args.h), RMul(FlangeWidth, args.tf))

\* 2h + 2b + 2(bf - b), which is 2(b + h) for a rectangular section
GrossPerimeter ==
    RAdd(RMul(I(2), RAdd(args.h, args.b)), RMul(I(2), FlangeWidth))

\* The flange width a result reports: b_total (analysis) or bf (geometry)
ReportedFlange ==
    IF entry.name \in GeometryEntries THEN outcome.value.bf
    ELSE IF entry.name = "analysis_rectangular" THEN args.b
    ELSE outcome.value.b_total

\* The geometry helpers called for the section of the invocation
HelperGross ==
    {compute_section_geometry(args.b, args.h, entry.section_type,
                              IF FlangeSides = 0 THEN None ELSE args.tf),
     compute_section_geometry_dup(args.b, args.h, entry.section_type,
                                  IF FlangeSides = 0 THEN None ELSE args.tf)}

\* C19: on every path that returns the gross geometry (the analysis entry
\* points and both geometry helpers) bf = b + 2 * min(4 tf, h - tf) for a T
\* section and b + min(4 tf, h - tf) for an L section,
\* Acp = b h + (bf - b) tf and Pcp = 2h + 2b + 2(bf - b), Acp = b h and
\* Pcp = 2(b + h) for a rectangular section; the analysis entry points and
\* the two helpers return the same Acp and Pcp.
C19_GrossGeometryShared ==
    (/\ entry.name \in AnalysisEntries \cup GeometryEntries
     /\ outcome.kind = "result") =>
        /\ ReportedFlange = RAdd(args.b, FlangeWidth)
        /\ outcome.value.Acp = GrossArea
        /\ outcome.value.Pcp = GrossPerimeter
        /\ \A g \in HelperGross :
               /\ g.kind = "result"
               /\ g.value.Acp = outcome.value.Acp
               /\ g.value.Pcp = outcome.value.Pcp

\* C19 witness: a T section whose overhang is limited by h - tf has gone
\* through the analysis entry point
C19_Witness ==
    /\ entry.name = "analysis_T"
    /\ outcome.kind = "result"
    /\ RLt(Zero, args.tf)
    /\ RLt(RSub(args.h, args.tf), RMul(I(4), args.tf))
    /\ RLt(Zero, RSub(args.h, args.tf))
    /\ outcome.value.Acp = GrossArea

\* Al_torsion = Tu_in * Ph / (phi * 2 * Ao * fy) of a design invocation
AlTorsion ==
    RDiv(RMul(RMul(args.tu, I(12)), DesignGeometry.value.Ph),
         RMul(RMul(R(3, 2), DesignGeometry.value.Ao), args.fy))

\* At/s = Tu_in / (phi * 2 * Ao * fy)
TorsionStirrupRatio ==
    RDiv(RMul(args.tu, I(12)), RMul(RMul(R(3, 2), DesignGeometry.value.Ao), args.fy))

\* 5 * sqrt(fc) * Acp / (1000 * fy)
AlminBase ==
    RDiv(RMul(RMul(I(5), math_sqrt(args.fc)), DesignGeometry.value.Acp),
         RMul(I(1000), args.fy))

\* term1 = base - (At/s) * Ph * fyt / fy
AlminTerm1 ==
    RSub(AlminBase,
         RDiv(RMul(RMul(TorsionStirrupRatio, DesignGeometry.value.Ph), args.fyt),
              args.fy))

\* term2 = base - (25 * b / fyt) * Ph * fyt / fy
AlminTerm2 ==
    RSub(AlminBase,
         RDiv(RMul(RMul(RDiv(RMul(I(25), args.b), args.fyt),
                        DesignGeometry.value.Ph), args.fyt), args.fy))

\* Almin = max(term1, term2)
AlminOfCall == IF RLt(AlminTerm1, AlminTerm2) THEN AlminTerm2 ELSE AlminTerm1

\* C20: in every design result that carries Al, Al is the larger of
\* Al_torsion and Almin = max(term1, term2), so Al >= Almin, and the
\* Almin_governs flag is in the result exactly when Al_torsion < Almin.
C20_AlNotBelowAlmin ==
    (/\ entry.name \in DesignEntries
     /\ outcome.kind = "result"
     /\ "Al" \in DOMAIN outcome.value) =>
        /\ outcome.value.Al =
               IF RLt(AlTorsion, AlminOfCall) THEN AlminOfCall ELSE AlTorsion
        /\ RLe(AlminOfCall, outcome.value.Al)
        /\ ("Almin_governs" \in DOMAIN outcome.value) <=> RLt(AlTorsion, AlminOfCall)
        /\ "Almin_governs" \in DOMAIN outcome.value =>
               outcome.value.Almin_governs = TRUE

\* C20 witness: a design result in which Almin governed: Al_torsion was
\* smaller and the reported Al is Almin
C20_Witness ==
    /\ entry.name \in DesignEntries
    /\ outcome.kind = "result"
    /\ "Al" \in DOMAIN outcome.value
    /\ "Almin_governs" \in DOMAIN outcome.value
    /\ RLt(Zero, AlTorsion)
    /\ RLt(AlTorsion, outcome.value.Al)

\* A design result in which the torsion steel governed: no flag
TorsionSteelGoverns ==
    /\ entry.name \in DesignEntries
    /\ outcome.kind = "result"
    /\ "Al" \in DOMAIN outcome.value
    /\ "Almin_governs" \notin DOMAIN outcome.value

\* A design entry point has returned a result with the reinforcement sized
Reinforced ==
    /\ entry.name \in DesignEntries
    /\ outcome.kind = "result"
    /\ "Ats" \in DOMAIN outcome.value

\* x = Vs / (fyt * d), 0 if fyt * d = 0, from the reported Vs
ShearStirrupRatio ==
    IF RMul(args.fyt, RSub(args.h, R(5, 2))) = Zero THEN Zero
    ELSE RDiv(outcome.value.Vs, RMul(args.fyt, RSub(args.h, R(5, 2))))

\* 0.75 * sqrt(fc) * b / (1000 * fyt)
AtsminRoot ==
    RDiv(RMul(RMul(R(3, 4), math_sqrt(args.fc)), args.b), RMul(I(1000), args.fyt))

\* 50 * b / (1000 * fyt)
AtsminFloor == RDiv(RMul(I(50), args.b), RMul(I(1000), args.fyt))

\* (Vu - phiVc) / phi from the reported phiVc
ShearExcess == RDiv(RSub(args.vu, outcome.value.phiVc), R(3, 4))

\* C21: in every design result that carries Ats, Vs = max(0, (Vu - phiVc) / phi)
\* and is not negative, Atsmin = max(0.75 sqrt(fc) b / fyt, 50 b / fyt) (per
\* 1000, the code's units), and Ats = max(x + 2 At/s, Atsmin), so
\* Ats >= Atsmin.
C21_TransverseSteelFloor ==
    Reinforced =>
        /\ outcome.value.Vs = IF RLt(ShearExcess, Zero) THEN Zero ELSE ShearExcess
        /\ RLe(Zero, outcome.value.Vs)
        /\ outcome.value.Atsmin =
               IF RLt(AtsminRoot, AtsminFloor) THEN AtsminFloor ELSE AtsminRoot
        /\ LET demanded == RAdd(ShearStirrupRatio, RMul(I(2), TorsionStirrupRatio))
           IN  outcome.value.Ats =
                   IF RLt(demanded, outcome.value.Atsmin)
                   THEN outcome.value.Atsmin ELSE demanded
        /\ RLe(outcome.value.Atsmin, outcome.value.Ats)

\* C21 witness: a design result with Vu below phiVc, hence no shear steel,
\* whose Ats is above the minimum through the torsion part alone
C21_Witness ==
    /\ Reinforced
    /\ RLt(args.vu, outcome.value.phiVc)
    /\ outcome.value.Vs = Zero
    /\ RLt(outcome.value.Atsmin, outcome.value.Ats)

\* userTopBarsArea = topBarCount * Area(topBarDesignation); 0 without top bars
UserTopBarsArea ==
    IF args.nt = 0 THEN Zero ELSE RMul(I(args.nt), area_of_bar(args.bar_top))

\* C22: in every design result with reinforcement, req_bottom is the user's
\* flexure steel plus Al / 3, req_mid is Al / 3 and req_top is the user's top
\* bar area (0 without top bars) plus Al / 3, so what the three hold beyond
\* the flexure steel and the top bar area adds up to the whole of Al.
C22_TorsionSteelSplitInThree ==
    Reinforced =>
        /\ outcome.value.req_mid = RDiv(outcome.value.Al, I(3))
        /\ outcome.value.req_bottom = RAdd(args.As_flexure, RDiv(outcome.value.Al, I(3)))
        /\ outcome.value.req_top = RAdd(UserTopBarsArea, RDiv(outcome.value.Al, I(3)))
        /\ RAdd(RAdd(RSub(outcome.value.req_bottom, args.As_flexure),
                     outcome.value.req_mid),
                RSub(outcome.value.req_top, UserTopBarsArea))
             = outcome.value.Al

\* C22 witness: a design result for a caller who specified top bars of a
\* size other than the reference size
C22_Witness ==
    /\ Reinforced
    /\ args.nt = 2
    /\ args.bar_top = 5
    /\ RLt(Zero, outcome.value.Al)
    /\ RLt(outcome.value.req_mid, outcome.value.req_top)

\* The design entry point of the invocation, called with other arguments
DesignCall(a) ==
    IF entry.name = "design_T" THEN design_T(a)
    ELSE IF entry.name = "design_L" THEN design_L(a)
    ELSE design_rectangular(a)

\* n = ceil(required / area)      (area > 0)
IsCeilOf(n, required, area) ==
    /\ RLt(RMul(I(n - 1), area), required)
    /\ RLe(required, RMul(I(n), area))

\* Bottom bars a caller may pass instead: designations and counts
OtherBottomBars == {3, 6, 9, 12}
OtherBottomCounts == {0, 2, 3}

\* C23: in every design result with reinforcement the bottom bar count is
\* ceil(req_bottom / Area(#8)) and the top bar count ceil(req_top / Area(#6)),
\* whatever designations the caller passes, and the same call with another
\* bottom designation or bottom count returns the same result in every
\* field but provided_bottom_by_user.
C23_ReferenceSizesFixed ==
    Reinforced =>
        /\ IsCeilOf(outcome.value.num_bottom_bars_needed, outcome.value.req_bottom,
                    R(785398, 1000000))
        /\ IsCeilOf(outcome.value.num_top_bars_needed, outcome.value.req_top,
                    R(441786, 1000000))
        /\ \A bar_l \in OtherBottomBars, nl \in OtherBottomCounts :
               LET other == DesignCall([args EXCEPT !.bar_l = bar_l, !.nl = nl])
               IN  /\ other.kind = "result"
                   /\ DOMAIN other.value = DOMAIN outcome.value
                   /\ \A k \in DOMAIN outcome.value \ {"provided_bottom_by_user"} :
                          other.value[k] = outcome.value[k]

\* C23 witness: a design result for a caller whose bottom and top bars are
\* not of the reference sizes
C23_Witness ==
    /\ Reinforced
    /\ args.bar_l = 9
    /\ args.nl = 3
    /\ args.bar_top = 5
    /\ args.nt = 2
    /\ outcome.value.num_bottom_bars_needed >= 1
    /\ outcome.value.num_top_bars_needed >= 1

\* The designations of the scanned range 3 to 12 whose area is at least half
\* of req_mid (a designation missing from the table has area 0)
QualifyingMidBars ==
    {bar \in 3..12 :
        RLe(RDiv(outcome.value.req_mid, I(2)), area_of_bar(bar))}

\* C24: in every design result with reinforcement, mid_bar is the smallest
\* designation of 3 to 12 whose area is at least req_mid / 2, and #3 when no
\* scanned designation qualifies; with req_mid <= 0 it is #3.
C24_MidBarSmallestQualifying ==
    Reinforced =>
        /\ outcome.value.mid_bar =
               IF QualifyingMidBars # {}
               THEN CHOOSE x \in QualifyingMidBars : \A y \in QualifyingMidBars : x <= y
               ELSE 3
        /\ RLe(outcome.value.req_mid, Zero) => outcome.value.mid_bar = 3

\* C24 witness: the scan has passed over sizes too small and returned a
\* larger one
C24_Witness ==
    /\ Reinforced
    /\ 3 \notin QualifyingMidBars
    /\ QualifyingMidBars # {}
    /\ outcome.value.mid_bar > 3

\* C25: in every design result with reinforcement the two mid-depth bars
\* provide the mid steel required: area_mid = 2 * Area(mid_bar) >= req_mid.
C25_MidBarsSuffice ==
    Reinforced =>
        /\ outcome.value.area_mid = RMul(I(2), area_of_bar(outcome.value.mid_bar))
        /\ RLe(outcome.value.req_mid, outcome.value.area_mid)

\* C28: whenever a design entry point called with b > 0, fc > 0 and fyt > 0
\* gets as far as selecting stirrups, the perimeter Ph and the steel Ats it
\* passes to the selector satisfy Ph > 0 and Ats >= Atsmin > 0, so the
\* selector's test "Ats <= 0 or Ph <= 0" is false on the design path.
C28_SelectorInputsPositive ==
    (/\ Reinforced
     /\ RLt(Zero, args.b)
     /\ RLt(Zero, args.fc)
     /\ RLt(Zero, args.fyt))
        => /\ RLt(Zero, DesignGeometry.value.Ph)
           /\ RLt(Zero, outcome.value.Atsmin)
           /\ RLe(outcome.value.Atsmin, outcome.value.Ats)
           /\ ~(RLe(outcome.value.Ats, Zero) \/ RLe(DesignGeometry.value.Ph, Zero))

\* C28 witness: such a design call reached the selector with the minimum
\* governing, Ats = Atsmin, and a bar was selected by the scan
C28_Witness ==
    /\ Reinforced
    /\ RLt(Zero, args.b)
    /\ RLt(Zero, args.fc)
    /\ RLt(Zero, args.fyt)
    /\ outcome.value.Ats = outcome.value.Atsmin
    /\ Has(outcome.steps, "stirrups")
    /\ outcome.value.stirrup_bar \in 3..8

\* C29: for every T or L section with b > 0, h > 0 and tf > 0, a flange
\* thicker than the section is deep included, the analysis call returns a
\* result (fc having a root) in which Pcp > 0, Acp > 0 and the flange width
\* b_total is not below b.
C29_FlangedGrossPositive ==
    (/\ entry.name \in {"analysis_T", "analysis_L"}
     /\ args.tf # None
     /\ RLt(Zero, args.b)
     /\ RLt(Zero, args.h)
     /\ RLt(Zero, args.tf)
     /\ RLe(Zero, args.fc))
        => /\ outcome.kind = "result"
           /\ RLt(Zero, outcome.value.Pcp)
           /\ RLt(Zero, outcome.value.Acp)
           /\ RLe(args.b, outcome.value.b_total)

-----------------------------------------------------------------------------
(* Properties of the stirrup selector                                      *)

\* The selector was called with Ph > 0 and Ats > 0
SelectorScanned ==
    /\ entry.name \in SelectorEntries
    /\ RLt(Zero, args.Ph)
    /\ RLt(Zero, args.Ats)

\* min(Ph / 8, 12)
SpacingLimit == RMin(RDiv(args.Ph, I(8)), I(12))

\* C13: for Ph > 0 and Ats > 0 the returned pair has spacing <= min(Ph / 8, 12)
\* and provides the steel required, 2 * Area(bar) / spacing >= Ats (stated as
\* 2 * Area(bar) >= Ats * spacing), on the accept and on the fallback branch.
C13_SelectionMeetsConstraints ==
    SelectorScanned =>
        /\ RLe(outcome.value.spacing, SpacingLimit)
        /\ RLe(RMul(args.Ats, outcome.value.spacing),
               RMul(I(2), area_of_bar(outcome.value.bar)))

\* C14: on a fixed Ph, a call with an Ats at least as large as that of the
\* call before it selects a spacing no larger than that call did.
C14_SpacingMonotone ==
    [][(/\ entry.name \in SelectorEntries
        /\ entry'.name = entry.name
        /\ RLe(args.Ats, args'.Ats)) =>
           RLe(outcome'.value.spacing, outcome.value.spacing)]_vars

\* clamp(x, lo, hi)
Clamp(x, lo, hi) == IF RLt(x, lo) THEN lo ELSE IF RLt(hi, x) THEN hi ELSE x

\* C15: whenever Ats <= 0 or Ph <= 0 the selector returns bar #3 with
\* spacing clamp(Ph / 8, 4, 12), which is 4 for every Ph <= 0.
C15_DegenerateSelection ==
    (/\ entry.name \in SelectorEntries
     /\ (RLe(args.Ats, Zero) \/ RLe(args.Ph, Zero))) =>
        /\ outcome.value.bar = 3
        /\ outcome.value.spacing = Clamp(RDiv(args.Ph, I(8)), I(4), I(12))

\* C16: when Ats is 0 the selector returns bar #3 and clamp(Ph / 8, 4, 12)
\* floored to the nearest 0.5, so the spacing is a multiple of 0.5.
C16_ZeroDemandSpacingFloored ==
    (entry.name \in SelectorEntries /\ args.Ats = Zero) =>
        /\ outcome.value.bar = 3
        /\ outcome.value.spacing = FloorHalf(Clamp(RDiv(args.Ph, I(8)), I(4), I(12)))
        /\ RMul(I(2), outcome.value.spacing)[2] = 1

\* s = 2 * Area(bar) / Ats      (Ats > 0)
SpacingOf(bar) == RDiv(RMul(I(2), area_of_bar(bar)), args.Ats)

\* The sizes among the given ones with 4 <= s <= min(Ph / 8, 12)
FittingBars(sizes) ==
    {bar \in sizes : RLe(I(4), SpacingOf(bar)) /\ RLe(SpacingOf(bar), SpacingLimit)}

\* The smallest fitting size with its s floored to a multiple of 0.5, or
\* bar #3 with floor(min(Ph / 8, 12) * 2) / 2 when no size fits
ScanResult(sizes) ==
    IF FittingBars(sizes) # {}
    THEN LET bar == CHOOSE x \in FittingBars(sizes) : \A y \in FittingBars(sizes) : x <= y
         IN  [bar |-> bar, spacing |-> FloorHalf(SpacingOf(bar))]
    ELSE [bar |-> 3, spacing |-> FloorHalf(SpacingLimit)]

\* C17 as stated: for Ats > 0 and Ph > 0 the selector returns the smallest
\* designation of the bar catalog (the eleven sizes of the table) with
\* 4 <= s <= min(Ph / 8, 12), with s floored to a multiple of 0.5, and falls
\* back to bar #3 with spacing floor(min(Ph / 8, 12) * 2) / 2 only when no
\* catalog size satisfies the bound.
C17_ScansWholeCatalog ==
    SelectorScanned => outcome.value = ScanResult(DOMAIN BarDiametersInit)

\* C17: for Ats > 0 and Ph > 0 the selector returns the smallest of the
\* sizes #3 to #8 with 4 <= s <= min(Ph / 8, 12), with s floored to a
\* multiple of 0.5, and falls back to bar #3 with spacing
\* floor(min(Ph / 8, 12) * 2) / 2 only when none of #3 to #8 satisfies the
\* bound; sizes #9 and above are never tried.
C17_ScansStirrupSizes ==
    SelectorScanned => outcome.value = ScanResult(3..8)

\* C17 witness: sizes #3 and #4 both satisfy the bound and the smaller one
\* has been returned
C17_Witness ==
    /\ SelectorScanned
    /\ entry.name = "select_stirrup_and_spacing"
    /\ {3, 4} \subseteq FittingBars(3..8)
    /\ outcome.value.bar = 3

\* C26: every spacing a stirrup selector returns lies between 4 and 12
\* inches, whatever Ph and Ats are and whichever branch returns it
C26_SpacingWithinRange ==
    entry.name \in SelectorEntries
        => /\ RLe(I(4), outcome.value.spacing)
           /\ RLe(outcome.value.spacing, I(12))

\* C27: on the same Ph and Ats the two stirrup selectors return the same bar
\* and the same spacing, Ph <= 0 with Ats > 0 included
C27_SelectorsAgree ==
    entry.name \in SelectorEntries
        => outcome = Selection(
               IF entry.name = "select_stirrup_and_spacing"
               THEN select_stirrup_and_spacing_dup(args.Ph, args.Ats)
               ELSE select_stirrup_and_spacing(args.Ph, args.Ats))

-----------------------------------------------------------------------------
(* Properties of the session                                               *)

\* The engine call of the last run is the pinned call made again
PinnedCallRepeated ==
    /\ pinned.present
    /\ last_inputs.present
    /\ entry = pinned.value.entry
    /\ last_inputs.value = pinned.value.inputs

C9_StoredResultFrozen ==
    [][(last_calc.present /\ runs' = runs) => last_calc' = last_calc]_vars

\* The keys of last_calc the drawing block assigns
DrawingKeys == {"mid_bar", "stirrup_bar", "stirrup_spacing"}

\* What a run of the calculation on the stored inputs stores as last_calc,
\* starting from an empty session
CalcOfStoredInputs ==
    RunCalcBlock(last_inputs.value.mode, last_inputs.value.section,
                 [k \in DOMAIN last_inputs.value \ {"mode", "section"} |->
                      last_inputs.value[k]],
                 Absent, Absent).last_calc

\* C30: after any sequence of Run Calculation events the stored last_inputs
\* and the stored last_calc belong to the same invocation: the stored inputs
\* are those whose calculation succeeded and, apart from the keys the drawing
\* assigns, the stored result is the result of that calculation; a failing
\* run therefore changes neither.
C30_StoredPairSameInvocation ==
    last_inputs.present =>
        /\ last_calc.present
        /\ CalcOfStoredInputs.present
        /\ \A k \in DOMAIN CalcOfStoredInputs.value \ DrawingKeys :
               /\ k \in DOMAIN last_calc.value
               /\ last_calc.value[k] = CalcOfStoredInputs.value[k]

=============================================================================
